---- MODULE Spec2Model ----
(***************************************************************************)
(* Model of src/src/keypair.rs (helium-crypto): the Keypair sum type and   *)
(* its dispatch to the backend keypairs.  The build modelled has every     *)
(* cargo feature on (ecc608, tpm, tee, multisig), so every match arm of    *)
(* the file exists.                                                        *)
(*                                                                         *)
(* The backends (crate::ed25519, crate::ecc_compact, crate::ecc608,        *)
(* crate::tpm, crate::tee), KeyType / Network / KeyTag, PublicKey and      *)
(* Error belong to the crate but not to keypair.rs; they are modelled from *)
(* the capability contract of the specification, over a small prime-order  *)
(* group in place of the curves.                                           *)
(***************************************************************************)
EXTENDS Integers, Sequences, FiniteSets, TLC

VARIABLES
    key_pair,   \* the Keypair the caller holds, and how it was made
    other,      \* a second Keypair, generated with key_pair's tag
    csprng,     \* next output of the random source handed to generate
    last        \* the last call: operation, arguments, return, backend calls

vars == <<key_pair, other, csprng, last>>

(***************************************************************************)
(* Bounds of the model.                                                    *)
(***************************************************************************)
MaxLen == 3        \* longest arbitrary input handed to try_from
MaxMsgLen == 1     \* longest message handed to sign
MaxEntropyLen == 1 \* longest entropy handed to generate_from_entropy

(***************************************************************************)
(* Results: Ok(v), Err(e), or a panic unwinding out of the call.           *)
(***************************************************************************)
Ok(v) == [kind |-> "Ok", val |-> v]
Err(e) == [kind |-> "Err", val |-> e]
Panic(m) == [kind |-> "Panic", val |-> m]

IsOk(r) == r.kind = "Ok"
IsErr(r) == r.kind = "Err"
IsPanic(r) == r.kind = "Panic"

\* crate::Error constructors used by keypair.rs and by the backends.
Error_invalid_keytype(b) == [err |-> "InvalidKeyType", byte |-> b]
Error_invalid_curve == [err |-> "InvalidCurve", byte |-> 0]
Error_invalid_network(b) == [err |-> "InvalidNetwork", byte |-> b]
Error_invalid_entropy == [err |-> "InvalidEntropy", byte |-> 0]
Error_decode == [err |-> "Decode", byte |-> 0]
Error_device == [err |-> "Device", byte |-> 0]
Error_verify == [err |-> "Verify", byte |-> 0]

\* One backend call and what it returned.
Call(f, r) == [fn |-> f, ret |-> r]

\* What a Keypair-level call did: its return and the backend calls it made.
Done(r, cs) == [ret |-> r, calls |-> cs]

(***************************************************************************)
(* Network, KeyType, KeyTag and their one-byte encoding.                   *)
(***************************************************************************)
Networks == {"MainNet", "TestNet"}
BackedKeyTypes == {"Ed25519", "EccCompact"}
KeyTypes == BackedKeyTypes \cup {"MultiSig"}

KeyTag(n, t) == [network |-> n, key_type |-> t]
KeyTags == {KeyTag(n, t) : n \in Networks, t \in KeyTypes}
SupportedTags == {KeyTag(n, t) : n \in Networks, t \in BackedKeyTypes}

Byte == 0..255

KeyType_to_u8(t) ==
    CASE t = "EccCompact" -> 0
      [] t = "Ed25519" -> 1
      [] t = "MultiSig" -> 2

Network_to_u8(n) == IF n = "MainNet" THEN 0 ELSE 16

KeyTag_to_u8(tag) == Network_to_u8(tag.network) + KeyType_to_u8(tag.key_type)

\* KeyType::try_from(u8): the low nibble names the key type.
KeyType_try_from(b) ==
    CASE b % 16 = 0 -> Ok("EccCompact")
      [] b % 16 = 1 -> Ok("Ed25519")
      [] b % 16 = 2 -> Ok("MultiSig")
      [] OTHER -> Err(Error_invalid_keytype(b))

\* Network::try_from(u8): the high nibble names the network.
Network_try_from(b) ==
    CASE b \div 16 = 0 -> Ok("MainNet")
      [] b \div 16 = 1 -> Ok("TestNet")
      [] OTHER -> Err(Error_invalid_network(b))

(***************************************************************************)
(* The group standing in for the curves: the subgroup of order GroupOrder  *)
(* of the integers modulo GroupPrime, generated by GroupGen.               *)
(***************************************************************************)
GroupPrime == 11
GroupOrder == 5
GroupGen == 3

RECURSIVE ModExp(_, _)
ModExp(b, e) == IF e = 0 THEN 1 ELSE (b * ModExp(b, e - 1)) % GroupPrime

Scalars == 1..(GroupOrder - 1)

(***************************************************************************)
(* PublicKey and the backend keypairs.  A backend keypair holds its        *)
(* network, its public key and its secret.  A hardware backend's keypair   *)
(* names a key inside a device: secret stands for that key, and device_ok  *)
(* for whether the device answers when called.                             *)
(***************************************************************************)
PublicKey(n, t, pt) == [network |-> n, key_type |-> t, point |-> pt]

BackendKeypair(n, t, secret, scalar) ==
    [network |-> n,
     public_key |-> PublicKey(n, t, ModExp(GroupGen, scalar)),
     secret |-> secret]

HardwareKeypair(n, secret, device_ok) ==
    [network |-> n,
     public_key |-> PublicKey(n, "EccCompact", ModExp(GroupGen, secret)),
     secret |-> secret,
     device_ok |-> device_ok]

\* A byte of randomness reduced to a scalar of the group.
reduce_scalar(b) == 1 + (b % (GroupOrder - 1))

\* An Ed25519 secret is a seed: every byte is one, and the scalar is derived.
ed25519_scalar(seed) == reduce_scalar(seed)

ed25519_generate(network, rnd) ==
    BackendKeypair(network, "Ed25519", rnd, ed25519_scalar(rnd))

ecc_compact_generate(network, rnd) ==
    BackendKeypair(network, "EccCompact", reduce_scalar(rnd), reduce_scalar(rnd))

\* Entropy is one secret's worth of bytes (here: one byte).
ed25519_generate_from_entropy(network, entropy) ==
    IF Len(entropy) = 1
    THEN Ok(BackendKeypair(network, "Ed25519", entropy[1], ed25519_scalar(entropy[1])))
    ELSE Err(Error_invalid_entropy)

\* An EccCompact secret is the scalar itself, which must lie in the group.
ecc_compact_generate_from_entropy(network, entropy) ==
    IF Len(entropy) = 1 /\ entropy[1] \in Scalars
    THEN Ok(BackendKeypair(network, "EccCompact", entropy[1], entropy[1]))
    ELSE Err(Error_invalid_entropy)

backend_key_tag(t, keypair) == KeyTag(keypair.network, t)

\* The signature of msg under the key with this scalar: the key's point,
\* then the message bytes shifted by the scalar.  EccCompact and the
\* hardware backends wrap it DER-style (a header and a length).
SigBody(scalar, msg) ==
    <<ModExp(GroupGen, scalar)>> \o [i \in 1..Len(msg) |-> (msg[i] + 17 * scalar) % 256]

ed25519_signature(scalar, msg) == SigBody(scalar, msg)

ecdsa_signature(scalar, msg) == <<48, Len(msg) + 1>> \o SigBody(scalar, msg)

ed25519_sign(keypair, msg) ==
    Ok(ed25519_signature(ed25519_scalar(keypair.secret), msg))

ecc_compact_sign(keypair, msg) == Ok(ecdsa_signature(keypair.secret, msg))

hardware_sign(keypair, msg) ==
    IF keypair.device_ok
    THEN Ok(ecdsa_signature(keypair.secret, msg))
    ELSE Err(Error_device)

\* PublicKey::verify: accepts exactly the signature the key's owner makes of msg.
PublicKey_verify(public_key, msg, signature) ==
    IF \E sk \in Scalars :
          /\ ModExp(GroupGen, sk) = public_key.point
          /\ signature = IF public_key.key_type = "Ed25519"
                         THEN ed25519_signature(sk, msg)
                         ELSE ecdsa_signature(sk, msg)
    THEN Ok(TRUE)
    ELSE Err(Error_verify)

\* Diffie-Hellman: the peer's point raised to the own scalar; only an
\* EccCompact public key is a point of the curve.
ecc_compact_ecdh(keypair, public_key) ==
    IF public_key.key_type = "EccCompact"
    THEN Ok(<<ModExp(public_key.point, keypair.secret)>>)
    ELSE Err(Error_invalid_curve)

hardware_ecdh(keypair, public_key) ==
    IF keypair.device_ok
    THEN ecc_compact_ecdh(keypair, public_key)
    ELSE Err(Error_device)

\* Byte 0 is the KeyTag; then the seed (Ed25519), or the point and the
\* scalar (EccCompact).
ed25519_to_vec(keypair) ==
    <<KeyTag_to_u8(backend_key_tag("Ed25519", keypair)), keypair.secret>>

ecc_compact_to_vec(keypair) ==
    <<KeyTag_to_u8(backend_key_tag("EccCompact", keypair)),
      keypair.public_key.point, keypair.secret>>

backend_secret_to_vec(keypair) == <<keypair.secret>>

ed25519_try_from(input) ==
    LET n == Network_try_from(input[1]) IN
    IF IsErr(n) THEN n
    ELSE IF Len(input) # 2 THEN Err(Error_decode)
    ELSE Ok(BackendKeypair(n.val, "Ed25519", input[2], ed25519_scalar(input[2])))

ecc_compact_try_from(input) ==
    LET n == Network_try_from(input[1]) IN
    IF IsErr(n) THEN n
    ELSE IF Len(input) # 3 THEN Err(Error_decode)
    ELSE IF input[3] \notin Scalars THEN Err(Error_decode)
    ELSE IF input[2] # ModExp(GroupGen, input[3]) THEN Err(Error_decode)
    ELSE Ok(BackendKeypair(n.val, "EccCompact", input[3], input[3]))

(***************************************************************************)
(* keypair.rs: the Keypair enum, one variant per backend.                  *)
(***************************************************************************)
SoftwareVariants == {"Ed25519", "EccCompact"}
HardwareVariants == {"Ecc608", "TPM", "Tee"}

\* impl From<backend::Keypair> for Keypair: wrap in the backend's variant.
Keypair_from(variant, keypair) == [variant |-> variant, keypair |-> keypair]

\* The key type a variant's backend reports in its key_tag().
VariantKeyType(variant) == IF variant = "Ed25519" THEN "Ed25519" ELSE "EccCompact"

\* Mutant of sign: the Ed25519 arm signs with the EccCompact backend.
Keypair_sign_WrongBackend(self, msg) ==
    IF self.variant \in HardwareVariants
    THEN LET r == hardware_sign(self.keypair, msg)
         IN  Done(r, <<Call("ecc608::sign", r)>>)
    ELSE LET r == ecc_compact_sign(self.keypair, msg)
         IN  Done(r, <<Call("ecc_compact::sign", r)>>)

\* impl Sign for Keypair
Keypair_sign(self, msg) ==
    CASE self.variant = "Ed25519" ->
            LET r == ed25519_sign(self.keypair, msg)
            IN  Done(r, <<Call("ed25519::sign", r)>>)
      [] self.variant = "EccCompact" ->
            LET r == ecc_compact_sign(self.keypair, msg)
            IN  Done(r, <<Call("ecc_compact::sign", r)>>)
      [] self.variant = "Ecc608" ->
            LET r == hardware_sign(self.keypair, msg)
            IN  Done(r, <<Call("ecc608::sign", r)>>)
      [] self.variant = "TPM" ->
            LET r == hardware_sign(self.keypair, msg)
            IN  Done(r, <<Call("tpm::sign", r)>>)
      [] self.variant = "Tee" ->
            LET r == hardware_sign(self.keypair, msg)
            IN  Done(r, <<Call("tee::sign", r)>>)

\* Mutant of generate: the two arms build each other's keypair.
Keypair_generate_SwappedArms(key_tag, rnd) ==
    CASE key_tag.key_type = "EccCompact" ->
            LET k == ed25519_generate(key_tag.network, rnd)
            IN  Done(Ok(Keypair_from("Ed25519", k)),
                     <<Call("ed25519::generate", Ok(k))>>)
      [] key_tag.key_type = "Ed25519" ->
            LET k == ecc_compact_generate(key_tag.network, rnd)
            IN  Done(Ok(Keypair_from("EccCompact", k)),
                     <<Call("ecc_compact::generate", Ok(k))>>)
      [] key_tag.key_type = "MultiSig" -> Done(Panic("not supported"), <<>>)

\* Keypair::generate; rnd is what the csprng yields to the backend.
Keypair_generate(key_tag, rnd) ==
    CASE key_tag.key_type = "EccCompact" ->
            LET k == ecc_compact_generate(key_tag.network, rnd)
            IN  Done(Ok(Keypair_from("EccCompact", k)),
                     <<Call("ecc_compact::generate", Ok(k))>>)
      [] key_tag.key_type = "Ed25519" ->
            LET k == ed25519_generate(key_tag.network, rnd)
            IN  Done(Ok(Keypair_from("Ed25519", k)),
                     <<Call("ed25519::generate", Ok(k))>>)
      [] key_tag.key_type = "MultiSig" -> Done(Panic("not supported"), <<>>)

\* Mutant of generate_from_entropy: the entropy is only length-checked and
\* the key is drawn from the random source.
Keypair_generate_from_entropy_Random(key_tag, entropy) ==
    CASE key_tag.key_type = "EccCompact" ->
            LET r == IF Len(entropy) = 1
                     THEN Ok(ecc_compact_generate(key_tag.network, csprng))
                     ELSE Err(Error_invalid_entropy)
            IN  Done(IF IsOk(r) THEN Ok(Keypair_from("EccCompact", r.val)) ELSE r,
                     <<Call("ecc_compact::generate_from_entropy", r)>>)
      [] key_tag.key_type = "Ed25519" ->
            LET r == IF Len(entropy) = 1
                     THEN Ok(ed25519_generate(key_tag.network, csprng))
                     ELSE Err(Error_invalid_entropy)
            IN  Done(IF IsOk(r) THEN Ok(Keypair_from("Ed25519", r.val)) ELSE r,
                     <<Call("ed25519::generate_from_entropy", r)>>)
      [] key_tag.key_type = "MultiSig" -> Done(Panic("not supported"), <<>>)

\* Mutant of generate_from_entropy: unwrap() in place of the ? operator.
Keypair_generate_from_entropy_Unwrap(key_tag, entropy) ==
    CASE key_tag.key_type = "EccCompact" ->
            LET r == ecc_compact_generate_from_entropy(key_tag.network, entropy)
            IN  Done(IF IsOk(r) THEN Ok(Keypair_from("EccCompact", r.val))
                     ELSE Panic("unwrap on an Err value"),
                     <<Call("ecc_compact::generate_from_entropy", r)>>)
      [] key_tag.key_type = "Ed25519" ->
            LET r == ed25519_generate_from_entropy(key_tag.network, entropy)
            IN  Done(IF IsOk(r) THEN Ok(Keypair_from("Ed25519", r.val))
                     ELSE Panic("unwrap on an Err value"),
                     <<Call("ed25519::generate_from_entropy", r)>>)
      [] key_tag.key_type = "MultiSig" -> Done(Panic("not supported"), <<>>)

\* Keypair::generate_from_entropy; the ? operator hands the backend's error on.
Keypair_generate_from_entropy(key_tag, entropy) ==
    CASE key_tag.key_type = "EccCompact" ->
            LET r == ecc_compact_generate_from_entropy(key_tag.network, entropy)
            IN  Done(IF IsOk(r) THEN Ok(Keypair_from("EccCompact", r.val)) ELSE r,
                     <<Call("ecc_compact::generate_from_entropy", r)>>)
      [] key_tag.key_type = "Ed25519" ->
            LET r == ed25519_generate_from_entropy(key_tag.network, entropy)
            IN  Done(IF IsOk(r) THEN Ok(Keypair_from("Ed25519", r.val)) ELSE r,
                     <<Call("ed25519::generate_from_entropy", r)>>)
      [] key_tag.key_type = "MultiSig" -> Done(Panic("not supported"), <<>>)

\* Keypair::key_tag
Keypair_key_tag(self) == backend_key_tag(VariantKeyType(self.variant), self.keypair)

\* Keypair::public_key
Keypair_public_key(self) == self.keypair.public_key

\* Mutant of ecdh: no _ arm; Ed25519 goes to the EccCompact exchange.
Keypair_ecdh_NoCatchAll(self, public_key) ==
    IF self.variant \in HardwareVariants
    THEN LET r == hardware_ecdh(self.keypair, public_key)
         IN  Done(r, <<Call("ecc608::ecdh", r)>>)
    ELSE LET r == ecc_compact_ecdh(self.keypair, public_key)
         IN  Done(r, <<Call("ecc_compact::ecdh", r)>>)

\* Mutant of ecdh: the exchange is made with the keypair's own public key.
Keypair_ecdh_OwnPublicKey(self, public_key) ==
    CASE self.variant = "EccCompact" ->
            LET r == ecc_compact_ecdh(self.keypair, self.keypair.public_key)
            IN  Done(r, <<Call("ecc_compact::ecdh", r)>>)
      [] self.variant \in HardwareVariants ->
            LET r == hardware_ecdh(self.keypair, self.keypair.public_key)
            IN  Done(r, <<Call("ecc608::ecdh", r)>>)
      [] OTHER -> Done(Err(Error_invalid_curve), <<>>)

\* Keypair::ecdh: every variant but Ed25519 has an arm; the _ arm takes the rest.
Keypair_ecdh(self, public_key) ==
    CASE self.variant = "EccCompact" ->
            LET r == ecc_compact_ecdh(self.keypair, public_key)
            IN  Done(r, <<Call("ecc_compact::ecdh", r)>>)
      [] self.variant = "Ecc608" ->
            LET r == hardware_ecdh(self.keypair, public_key)
            IN  Done(r, <<Call("ecc608::ecdh", r)>>)
      [] self.variant = "TPM" ->
            LET r == hardware_ecdh(self.keypair, public_key)
            IN  Done(r, <<Call("tpm::ecdh", r)>>)
      [] self.variant = "Tee" ->
            LET r == hardware_ecdh(self.keypair, public_key)
            IN  Done(r, <<Call("tee::ecdh", r)>>)
      [] OTHER -> Done(Err(Error_invalid_curve), <<>>)

\* Mutant of to_vec: the software arms return the secret alone.
Keypair_to_vec_SecretOnly(self) ==
    IF self.variant \in SoftwareVariants
    THEN LET v == backend_secret_to_vec(self.keypair)
         IN  Done(Ok(v), <<Call("secret_to_vec", Ok(v))>>)
    ELSE Done(Panic("not supported"), <<>>)

\* Keypair::to_vec
Keypair_to_vec(self) ==
    CASE self.variant = "Ed25519" ->
            LET v == ed25519_to_vec(self.keypair)
            IN  Done(Ok(v), <<Call("ed25519::to_vec", Ok(v))>>)
      [] self.variant = "EccCompact" ->
            LET v == ecc_compact_to_vec(self.keypair)
            IN  Done(Ok(v), <<Call("ecc_compact::to_vec", Ok(v))>>)
      [] self.variant = "Ecc608" -> Done(Panic("not supported"), <<>>)
      [] self.variant = "TPM" -> Done(Panic("not supported"), <<>>)
      [] self.variant = "Tee" -> Done(Panic("not supported"), <<>>)

\* Keypair::secret_to_vec
Keypair_secret_to_vec(self) ==
    CASE self.variant = "Ed25519" ->
            LET v == backend_secret_to_vec(self.keypair)
            IN  Done(Ok(v), <<Call("ed25519::secret_to_vec", Ok(v))>>)
      [] self.variant = "EccCompact" ->
            LET v == backend_secret_to_vec(self.keypair)
            IN  Done(Ok(v), <<Call("ecc_compact::secret_to_vec", Ok(v))>>)
      [] self.variant = "Ecc608" -> Done(Panic("not supported"), <<>>)
      [] self.variant = "TPM" -> Done(Panic("not supported"), <<>>)
      [] self.variant = "Tee" -> Done(Panic("not supported"), <<>>)

\* Mutant of try_from: a first byte that names no key type is taken for
\* Ed25519 (unwrap_or in place of the ? operator).
Keypair_try_from_DefaultKeyType(input) ==
    IF Len(input) = 0
    THEN Done(Panic("index out of bounds"), <<>>)
    ELSE LET t == KeyType_try_from(input[1]) IN
         IF IsOk(t) /\ t.val = "EccCompact"
         THEN LET r == ecc_compact_try_from(input)
              IN  Done(IF IsOk(r) THEN Ok(Keypair_from("EccCompact", r.val)) ELSE r,
                       <<Call("ecc_compact::try_from", r)>>)
         ELSE LET r == ed25519_try_from(input)
              IN  Done(IF IsOk(r) THEN Ok(Keypair_from("Ed25519", r.val)) ELSE r,
                       <<Call("ed25519::try_from", r)>>)

\* impl TryFrom<&[u8]> for Keypair.  input[0] of the source is input[1]
\* here; indexing an empty slice panics before anything is decoded.
Keypair_try_from(input) ==
    IF Len(input) = 0
    THEN Done(Panic("index out of bounds"), <<>>)
    ELSE LET t == KeyType_try_from(input[1]) IN
         CASE IsErr(t) -> Done(t, <<>>)
           [] IsOk(t) /\ t.val = "Ed25519" ->
                 LET r == ed25519_try_from(input)
                 IN  Done(IF IsOk(r) THEN Ok(Keypair_from("Ed25519", r.val)) ELSE r,
                          <<Call("ed25519::try_from", r)>>)
           [] IsOk(t) /\ t.val = "EccCompact" ->
                 LET r == ecc_compact_try_from(input)
                 IN  Done(IF IsOk(r) THEN Ok(Keypair_from("EccCompact", r.val)) ELSE r,
                          <<Call("ecc_compact::try_from", r)>>)
           [] IsOk(t) /\ t.val = "MultiSig" ->
                 Done(Err(Error_invalid_keytype(input[1])), <<>>)

(***************************************************************************)
(* The inputs callers hand in.                                             *)
(***************************************************************************)
RECURSIVE SeqsUpTo(_, _)
SeqsUpTo(S, n) ==
    IF n = 0 THEN {<<>>}
    ELSE LET shorter == SeqsUpTo(S, n - 1)
         IN  shorter \cup {Append(q, b) : q \in shorter, b \in S}

RngOutputs == {6, 7}
Messages == SeqsUpTo({0, 104}, MaxMsgLen)
Entropies == SeqsUpTo({0, 2}, MaxEntropyLen)
DeviceSecrets == {2}

\* Arbitrary byte strings for try_from: empty, or a first byte (key types
\* and networks known and unknown) followed by a short payload.
FirstBytes == {0, 1, 2, 33, 255}
Inputs ==
    {<<>>} \cup {<<b>> \o q : b \in FirstBytes, q \in SeqsUpTo({3, 5}, MaxLen - 1)}

\* Public keys that belong to no Keypair held here.
ForeignPeers == {PublicKey(n, t, GroupGen) : n \in Networks, t \in BackedKeyTypes}

(***************************************************************************)
(* State.                                                                  *)
(***************************************************************************)
NoTag == KeyTag("-", "-")
NoPublicKey == PublicKey("-", "-", 0)
NoKeypair ==
    [variant |-> "None",
     keypair |-> [network |-> "-", public_key |-> NoPublicKey, secret |-> 0]]

\* A held Keypair and the call that made it.
Held(kp, op, tag, bytes) == [kp |-> kp, op |-> op, key_tag |-> tag, bytes |-> bytes]
NotHeld == Held(NoKeypair, "none", NoTag, <<>>)

Record(op, self, tag, bytes, peer, d) ==
    [op |-> op, self |-> self, key_tag |-> tag, bytes |-> bytes, peer |-> peer,
     ret |-> d.ret, calls |-> d.calls]

Init ==
    /\ key_pair = NotHeld
    /\ other = NotHeld
    /\ csprng \in RngOutputs
    /\ last = Record("none", NoKeypair, NoTag, <<>>, NoPublicKey, Done(Ok(TRUE), <<>>))

HeldKeys == {h.kp : h \in {key_pair, other} \ {NotHeld}}

(***************************************************************************)
(* Actions: one per call into keypair.rs.                                  *)
(***************************************************************************)
\* let keypair = Keypair::generate(key_tag, &mut OsRng);
Generate(key_tag) ==
    LET d == Keypair_generate(key_tag, csprng) IN
    /\ last' = Record("generate", NoKeypair, key_tag, <<>>, NoPublicKey, d)
    /\ key_pair' = IF IsOk(d.ret) THEN Held(d.ret.val, "generate", key_tag, <<>>)
                   ELSE key_pair
    /\ IF d.calls # <<>> THEN csprng' \in RngOutputs ELSE csprng' = csprng
    /\ UNCHANGED other

\* let other = Keypair::generate(key_pair.key_tag(), &mut OsRng);
GenerateOther ==
    /\ key_pair # NotHeld
    /\ LET key_tag == Keypair_key_tag(key_pair.kp)
           d == Keypair_generate(key_tag, csprng)
       IN  /\ last' = Record("generate", NoKeypair, key_tag, <<>>, NoPublicKey, d)
           /\ other' = IF IsOk(d.ret) THEN Held(d.ret.val, "generate", key_tag, <<>>)
                       ELSE other
           /\ IF d.calls # <<>> THEN csprng' \in RngOutputs ELSE csprng' = csprng
    /\ UNCHANGED key_pair

GenerateFromEntropy(key_tag, entropy) ==
    LET d == Keypair_generate_from_entropy(key_tag, entropy) IN
    /\ last' = Record("generate_from_entropy", NoKeypair, key_tag, entropy, NoPublicKey, d)
    /\ key_pair' = IF IsOk(d.ret)
                   THEN Held(d.ret.val, "generate_from_entropy", key_tag, entropy)
                   ELSE key_pair
    /\ UNCHANGED <<other, csprng>>

\* The same call once more: generate_from_entropy(tag, e) with the tag and
\* the entropy key_pair was made from; the caller only inspects the result.
GenerateFromEntropyAgain ==
    /\ key_pair.op = "generate_from_entropy"
    /\ last' = Record("generate_from_entropy", NoKeypair, key_pair.key_tag,
                      key_pair.bytes, NoPublicKey,
                      Keypair_generate_from_entropy(key_pair.key_tag, key_pair.bytes))
    /\ UNCHANGED <<key_pair, other, csprng>>

\* Keypair::from(backend keypair) for a key that lives in a device.
FromHardware(variant, network, secret, device_ok) ==
    LET k == HardwareKeypair(network, secret, device_ok)
        kp == Keypair_from(variant, k)
    IN  /\ last' = Record("from", NoKeypair, NoTag, <<>>, NoPublicKey, Done(Ok(kp), <<>>))
        /\ key_pair' = Held(kp, "from", NoTag, <<>>)
        /\ UNCHANGED <<other, csprng>>

TryFrom(input) ==
    /\ last' = Record("try_from", NoKeypair, NoTag, input, NoPublicKey,
                      Keypair_try_from(input))
    /\ UNCHANGED <<key_pair, other, csprng>>

\* Keypair::try_from(&keypair.to_vec()[..])
TryFromToVec(self) ==
    LET v == Keypair_to_vec(self) IN
    /\ IsOk(v.ret)
    /\ last' = Record("try_from", self, NoTag, v.ret.val, NoPublicKey,
                      Keypair_try_from(v.ret.val))
    /\ UNCHANGED <<key_pair, other, csprng>>

Sign(self, msg) ==
    /\ last' = Record("sign", self, NoTag, msg, NoPublicKey, Keypair_sign(self, msg))
    /\ UNCHANGED <<key_pair, other, csprng>>

Ecdh(self, public_key) ==
    /\ last' = Record("ecdh", self, NoTag, <<>>, public_key, Keypair_ecdh(self, public_key))
    /\ UNCHANGED <<key_pair, other, csprng>>

ToVec(self) ==
    /\ last' = Record("to_vec", self, NoTag, <<>>, NoPublicKey, Keypair_to_vec(self))
    /\ UNCHANGED <<key_pair, other, csprng>>

SecretToVec(self) ==
    /\ last' = Record("secret_to_vec", self, NoTag, <<>>, NoPublicKey,
                      Keypair_secret_to_vec(self))
    /\ UNCHANGED <<key_pair, other, csprng>>

GetKeyTag(self) ==
    /\ last' = Record("key_tag", self, NoTag, <<>>, NoPublicKey,
                      Done(Ok(Keypair_key_tag(self)), <<>>))
    /\ UNCHANGED <<key_pair, other, csprng>>

Next ==
    \/ \E key_tag \in KeyTags : Generate(key_tag)
    \/ GenerateOther
    \/ \E key_tag \in KeyTags, entropy \in Entropies :
          GenerateFromEntropy(key_tag, entropy)
    \/ GenerateFromEntropyAgain
    \/ \E variant \in HardwareVariants, network \in Networks,
          secret \in DeviceSecrets, device_ok \in BOOLEAN :
             FromHardware(variant, network, secret, device_ok)
    \/ \E input \in Inputs : TryFrom(input)
    \/ \E self \in HeldKeys : TryFromToVec(self)
    \/ \E self \in HeldKeys, msg \in Messages : Sign(self, msg)
    \/ \E self \in HeldKeys :
          \E public_key \in ForeignPeers \cup {Keypair_public_key(k) : k \in HeldKeys} :
             Ecdh(self, public_key)
    \/ \E self \in HeldKeys : ToVec(self)
    \/ \E self \in HeldKeys : SecretToVec(self)
    \/ \E self \in HeldKeys : GetKeyTag(self)

Spec == Init /\ [][Next]_vars

(***************************************************************************)
(* Properties.                                                             *)
(***************************************************************************)
Generated == {h.kp : h \in {hh \in {key_pair, other} : hh.op = "generate"}}

\* Every byte string that differs from q in exactly one byte.
OneByteOff(q) ==
    UNION {{[q EXCEPT ![i] = b] : b \in Byte \ {q[i]}} : i \in 1..Len(q)}

\* C1: a keypair k that generate(tag, rng) returned for a supported tag
\* serializes to bytes from which try_from rebuilds a Keypair equal to k,
\* and k.key_tag() is tag.
C1_RoundTrip ==
    /\ (last.op = "generate" /\ last.key_tag \in SupportedTags) =>
          /\ IsOk(last.ret)
          /\ Keypair_key_tag(last.ret.val) = last.key_tag
          /\ LET v == Keypair_to_vec(last.ret.val).ret IN
             /\ IsOk(v)
             /\ IsOk(Keypair_try_from(v.val).ret)
             /\ Keypair_try_from(v.val).ret.val = last.ret.val
    /\ \A h \in {key_pair, other} :
          (h.op = "generate" /\ last.op = "try_from" /\ last.self = h.kp) =>
             /\ IsOk(last.ret)
             /\ last.ret.val = h.kp
             /\ Keypair_key_tag(last.ret.val) = h.key_tag

C1_Witness ==
    /\ key_pair.op = "generate"
    /\ key_pair.key_tag = KeyTag("TestNet", "EccCompact")
    /\ last.op = "try_from"
    /\ last.self = key_pair.kp
    /\ IsOk(last.ret)

\* C2: to_vec() and secret_to_vec() on a hardware-backed Keypair return an
\* error value: they neither panic nor return key bytes.
C2_ExportRefusedWithError ==
    (last.op \in {"to_vec", "secret_to_vec"} /\ last.self.variant \in HardwareVariants)
        => IsErr(last.ret)

\* C3: try_from on the empty byte slice returns an error value: it neither
\* panics nor yields a Keypair.
C3_EmptyInputIsError ==
    (last.op = "try_from" /\ last.bytes = <<>>) => IsErr(last.ret)

\* C4: try_from on a non-empty input whose first byte b names no key type
\* that has a backend fails with InvalidKeyType(b), whatever follows b, and
\* calls no backend deserializer.
C4_UnknownKeyType ==
    (/\ last.op = "try_from"
     /\ last.bytes # <<>>
     /\ LET t == KeyType_try_from(last.bytes[1])
        IN  IsErr(t) \/ t.val \notin BackedKeyTypes)
        => /\ IsErr(last.ret)
           /\ last.ret.val = Error_invalid_keytype(last.bytes[1])
           /\ last.calls = <<>>

C4_Witness ==
    /\ last.op = "try_from"
    /\ Len(last.bytes) = 3
    /\ last.bytes[1] = 255
    /\ IsErr(last.ret)
    /\ last.ret.val = Error_invalid_keytype(255)

\* C5: ecdh on an Ed25519 keypair returns the invalid-curve error for every
\* peer public key, and calls no backend exchange.
C5_Ed25519HasNoExchange ==
    (last.op = "ecdh" /\ last.self.variant = "Ed25519")
        => /\ IsErr(last.ret)
           /\ last.ret.val = Error_invalid_curve
           /\ last.calls = <<>>

C5_Witness ==
    /\ last.op = "ecdh"
    /\ last.self.variant = "Ed25519"
    /\ last.peer.key_type = "EccCompact"
    /\ last.peer.network # last.self.keypair.network
    /\ IsErr(last.ret)

\* C6: two generated EccCompact keypairs of one network derive the same
\* shared secret from each other's public key, and both exchanges succeed.
C6_ExchangeSymmetry ==
    (/\ key_pair.op = "generate"
     /\ other.op = "generate"
     /\ key_pair.kp.variant = "EccCompact"
     /\ other.kp.variant = "EccCompact"
     /\ Keypair_key_tag(key_pair.kp) = Keypair_key_tag(other.kp))
        => LET a == Keypair_ecdh(key_pair.kp, Keypair_public_key(other.kp)).ret
               b == Keypair_ecdh(other.kp, Keypair_public_key(key_pair.kp)).ret
           IN  /\ IsOk(a)
               /\ IsOk(b)
               /\ a.val = b.val
               /\ (/\ last.op = "ecdh"
                   /\ last.self = key_pair.kp
                   /\ last.peer = Keypair_public_key(other.kp))
                     => (IsOk(last.ret) /\ last.ret.val = b.val)

C6_Witness ==
    /\ key_pair.op = "generate"
    /\ other.op = "generate"
    /\ key_pair.kp.variant = "EccCompact"
    /\ other.kp.variant = "EccCompact"
    /\ Keypair_key_tag(key_pair.kp) = Keypair_key_tag(other.kp)
    /\ key_pair.kp # other.kp
    /\ last.op = "ecdh"
    /\ last.self = key_pair.kp
    /\ last.peer = Keypair_public_key(other.kp)
    /\ IsOk(last.ret)

C8_SignVerify ==
    (last.op = "sign" /\ last.self \in Generated)
        => /\ IsOk(last.ret)
           /\ LET pk == Keypair_public_key(last.self) IN
              /\ IsOk(PublicKey_verify(pk, last.bytes, last.ret.val))
              /\ \A m \in OneByteOff(last.bytes) :
                    IsErr(PublicKey_verify(pk, m, last.ret.val))
              /\ \A sig \in OneByteOff(last.ret.val) :
                    IsErr(PublicKey_verify(pk, last.bytes, sig))

C8_Witness ==
    /\ last.op = "sign"
    /\ last.self \in Generated
    /\ last.self.variant = "Ed25519"
    /\ Len(last.bytes) = MaxMsgLen
    /\ IsOk(last.ret)
    /\ IsOk(PublicKey_verify(Keypair_public_key(last.self), last.bytes, last.ret.val))

\* The backend call a Keypair-level call is to be routed to, made afresh.
RoutedTo(l) ==
    CASE l.op = "sign" ->
            (CASE l.self.variant = "Ed25519" ->
                     Call("ed25519::sign", ed25519_sign(l.self.keypair, l.bytes))
               [] l.self.variant = "EccCompact" ->
                     Call("ecc_compact::sign", ecc_compact_sign(l.self.keypair, l.bytes))
               [] l.self.variant = "Ecc608" ->
                     Call("ecc608::sign", hardware_sign(l.self.keypair, l.bytes))
               [] l.self.variant = "TPM" ->
                     Call("tpm::sign", hardware_sign(l.self.keypair, l.bytes))
               [] l.self.variant = "Tee" ->
                     Call("tee::sign", hardware_sign(l.self.keypair, l.bytes)))
      [] l.op = "ecdh" ->
            (CASE l.self.variant = "EccCompact" ->
                     Call("ecc_compact::ecdh", ecc_compact_ecdh(l.self.keypair, l.peer))
               [] l.self.variant = "Ecc608" ->
                     Call("ecc608::ecdh", hardware_ecdh(l.self.keypair, l.peer))
               [] l.self.variant = "TPM" ->
                     Call("tpm::ecdh", hardware_ecdh(l.self.keypair, l.peer))
               [] l.self.variant = "Tee" ->
                     Call("tee::ecdh", hardware_ecdh(l.self.keypair, l.peer)))
      [] l.op = "generate_from_entropy" ->
            IF l.key_tag.key_type = "Ed25519"
            THEN Call("ed25519::generate_from_entropy",
                      ed25519_generate_from_entropy(l.key_tag.network, l.bytes))
            ELSE Call("ecc_compact::generate_from_entropy",
                      ecc_compact_generate_from_entropy(l.key_tag.network, l.bytes))
      [] l.op = "try_from" ->
            IF KeyType_try_from(l.bytes[1]).val = "Ed25519"
            THEN Call("ed25519::try_from", ed25519_try_from(l.bytes))
            ELSE Call("ecc_compact::try_from", ecc_compact_try_from(l.bytes))

\* Whether the call is one of those C9 speaks of: one with a backend to go to.
HasBackend(l) ==
    \/ l.op = "sign"
    \/ l.op = "ecdh" /\ l.self.variant # "Ed25519"
    \/ l.op = "generate_from_entropy" /\ l.key_tag.key_type \in BackedKeyTypes
    \/ /\ l.op = "try_from"
       /\ l.bytes # <<>>
       /\ IsOk(KeyType_try_from(l.bytes[1]))
       /\ KeyType_try_from(l.bytes[1]).val \in BackedKeyTypes

\* The variant a constructing call wraps the backend's keypair in.
WrapVariant(l) ==
    IF l.op = "try_from" THEN KeyType_try_from(l.bytes[1]).val ELSE l.key_tag.key_type

\* C9: sign, ecdh on a variant with an exchange, generate_from_entropy and
\* try_from with a known first byte make exactly the backend's call; they
\* fail exactly when it fails, with its error, and otherwise return its
\* result (wrapped in the matching variant where a Keypair is built).
C9_PassThrough ==
    HasBackend(last) =>
        LET b == RoutedTo(last) IN
        /\ Len(last.calls) = 1
        /\ last.calls[1] = b
        /\ ~IsPanic(last.ret)
        /\ IsErr(b.ret) => last.ret = b.ret
        /\ IsOk(b.ret) =>
              /\ IsOk(last.ret)
              /\ last.ret.val = IF last.op \in {"sign", "ecdh"} THEN b.ret.val
                                ELSE Keypair_from(WrapVariant(last), b.ret.val)

C9_Witness ==
    /\ last.op = "generate_from_entropy"
    /\ last.key_tag.key_type = "EccCompact"
    /\ last.bytes = <<0>>
    /\ IsErr(last.ret)
    /\ last.ret.val = Error_invalid_entropy

\* C10: a Keypair built by generate, generate_from_entropy or try_from has
\* the variant of the key type asked for (or decoded), never a hardware
\* variant, and its key_tag() is that key type with the network passed in
\* (or encoded).
C10_VariantMatchesTag ==
    /\ (last.op \in {"generate", "generate_from_entropy"} /\ IsOk(last.ret)) =>
          /\ last.ret.val.variant = last.key_tag.key_type
          /\ Keypair_key_tag(last.ret.val) = last.key_tag
    /\ (last.op = "try_from" /\ IsOk(last.ret)) =>
          /\ last.ret.val.variant \in SoftwareVariants
          /\ KeyType_try_from(last.bytes[1]) = Ok(last.ret.val.variant)
          /\ Keypair_key_tag(last.ret.val).key_type = last.ret.val.variant
          /\ Network_try_from(last.bytes[1])
                = Ok(Keypair_key_tag(last.ret.val).network)
    /\ \A h \in {key_pair, other} :
          h.op \in {"generate", "generate_from_entropy"} =>
             /\ h.kp.variant = h.key_tag.key_type
             /\ Keypair_key_tag(h.kp) = h.key_tag
    /\ (last.op = "key_tag") =>
          /\ IsOk(last.ret)
          /\ last.ret.val.key_type = VariantKeyType(last.self.variant)
          /\ last.ret.val.network = last.self.keypair.network

C10_Witness ==
    /\ last.op = "try_from"
    /\ last.self = NoKeypair
    /\ IsOk(last.ret)
    /\ last.ret.val.variant = "EccCompact"
    /\ Keypair_key_tag(last.ret.val) = KeyTag("MainNet", "EccCompact")

====
